---- MODULE Spec2Model ----
(***************************************************************************)
(* The chat-history service of the Telegram bot (src/src/chat_service.py)  *)
(* over its two tables (src/src/entities), called by concurrent request    *)
(* handlers that each own one database session                              *)
(* (src/src/services/database_service.py).                                  *)
(*                                                                         *)
(* Every `await` on the database is one step.  A statement sees the rows   *)
(* committed when it runs (READ COMMITTED, the default of the production    *)
(* PostgreSQL backend); a DELETE that has run but is not committed is      *)
(* invisible to the other sessions and keeps its rows locked.              *)
(***************************************************************************)
EXTENDS Integers, Sequences, FiniteSets, TLC

\* ---------------------------------------------------------------- bounds
MaxMessages == 3
MaxRacing == 2
MaxDate == 2
MaxLimit == 2
MaxHistory == 1

\* two requests in flight at a time
Handlers == {1, 2}
\* external (Telegram) chat identifiers, kept apart from the internal ids
ChatIds == {101, 102}
\* internal session identifiers a caller may pass
SessionIds == 1..Cardinality(ChatIds)
Dates == 1..MaxDate
Texts == {"a", "b"}
Roles == {"user", "model"}
\* the role strings a caller may pass: the column is a String(20)
RoleArgs == Roles \cup {"system"}

\* Python's None / a present value
None == <<>>
Some(x) == <<x>>

HistoryArgs == {None} \cup {Some(m) : m \in 0..MaxHistory}
LimitArgs == {None} \cup {Some(l) : l \in (-1)..MaxLimit}

Min(a, b) == IF a <= b THEN a ELSE b

VARIABLES
    fk,             \* the backend enforces foreign keys (PostgreSQL) or not (SQLite as configured)
    sessions,       \* table chat_session: rows [id, chat_id], committed
    messages,       \* table chat_message: rows [id, chat_id, text, date, role], committed
    nextSessionId,  \* chat_session.id sequence
    nextMessageId,  \* chat_message.id sequence
    pc,             \* per handler: where its request stands
    svc,            \* per handler: ChatService._max_history_messages (0: no service yet)
    call,           \* per handler: the service call in progress and its locals
    ret,            \* per handler: what its last completed service call returned
    tx,             \* per handler: rows deleted by its open transaction, not yet committed
    err,            \* per handler: the exception that ended its request, and the call that raised it
    issued,         \* history: per external chat id, the session ids get_or_create_session returned
    acked,          \* history: the arguments of the add_message calls that returned, less those
                    \* on whose session a clear has committed since
    clean,          \* history: per session, a clear's DELETE has run and no add_message committed since
    env,            \* the process environment and configuration the webhook reads
    hook            \* per handler: the webhook request it serves, and how far it has come

vars == <<fk, sessions, messages, nextSessionId, nextMessageId, pc, svc, call, ret, tx, err,
          issued, acked, clean, env, hook>>

NoCall == [op |-> "none"]
NoRet == [op |-> "none"]
NoErr == [type |-> "none", op |-> "none"]
\* the handler serves no webhook request: its service calls come from a direct caller
NoHook == [stage |-> "idle"]

\* ------------------------------------------------------- pure operators

\* Config.MAX_HISTORY_MESSAGES: the Config class defines no such attribute
ConfigMaxHistoryMessages == None

\* Config.DEFAULT_GEMINI_MODEL_NAME: the Config class defines no such attribute
\* (its attribute is DEFAULT_GEMINI_MODEL)
ConfigDefaultGeminiModelName == None

\* ChatService.__init__: max_history_messages or Config.MAX_HISTORY_MESSAGES
\* (a result of None stands for the AttributeError of a missing attribute)
ServiceInitFrom(m, config) ==
    IF m # None /\ m[1] # 0 THEN m ELSE config

\* ChatService.__init__ over the Config class of the source
ServiceInit(m) == ServiceInitFrom(m, ConfigMaxHistoryMessages)

\* mutant of EffectiveLimit: a negative limit is taken as 0
EffectiveLimitClamped(limit, default) ==
    IF limit = None THEN default ELSE IF limit[1] < 0 THEN 0 ELSE limit[1]

\* mutant of EffectiveLimit: `limit or default`, so that 0 gives way to the default
EffectiveLimitOr(limit, default) ==
    IF limit = None \/ limit[1] = 0 THEN default ELSE limit[1]

\* get_chat_history lines 39-40: the limit in force
EffectiveLimit(limit, default) == IF limit = None THEN default ELSE limit[1]

\* mutant of MsgsOf: the statement without its WHERE clause
MsgsOfAll(msgs, sid) == msgs

\* WHERE ChatMessage.chat_id == session_id
MsgsOf(msgs, sid) == {m \in msgs : m.chat_id = sid}

\* all orders of a finite set of rows
Orders(S) ==
    {s \in [1..Cardinality(S) -> S] : \A i, j \in 1..Cardinality(S) : i # j => s[i] # s[j]}

\* mutant of OrderByDateDesc: the newest rows by insertion (ORDER BY id DESC)
OrderByIdDesc(S) ==
    {s \in Orders(S) : \A i, j \in 1..Len(s) : i < j => s[i].id >= s[j].id}

\* ORDER BY ChatMessage.date DESC: every order the database may produce
\* (rows of equal date come in an order the database chooses)
OrderByDateDesc(S) ==
    {s \in Orders(S) : \A i, j \in 1..Len(s) : i < j => s[i].date >= s[j].date}

\* mutant of Limit: the query without its .limit()
LimitIgnored(s, n) == s

\* .limit(limit)
Limit(s, n) == SubSeq(s, 1, Min(Len(s), n))

\* reversed(messages)
Reversed(s) == [i \in 1..Len(s) |-> s[Len(s) + 1 - i]]

\* lines 46-52: the possible results of the SELECT
SelectRecent(msgs, sid, limit) ==
    {Limit(s, limit) : s \in OrderByDateDesc(MsgsOf(msgs, sid))}

\* mutant of FormatHistory: every entry given the role "user"
FormatHistoryFixedRole(rows) ==
    [i \in 1..Len(rows) |->
        [role |-> "user", parts |-> <<[text |-> Reversed(rows)[i].text]>>]]

\* lines 55-60: one dict per message, oldest first
FormatHistory(rows) ==
    [i \in 1..Len(rows) |->
        [role |-> Reversed(rows)[i].role, parts |-> <<[text |-> Reversed(rows)[i].text]>>]]

\* mutant of NewMessage: the timestamp serves as the identifier
NewMessageKeyedByDate(id, sid, text, date, role) ==
    [id |-> date, chat_id |-> sid, text |-> text, date |-> date, role |-> role]

\* ChatMessage(chat_id=session_id, text=text, date=date, role=role) with its assigned id
NewMessage(id, sid, text, date, role) ==
    [id |-> id, chat_id |-> sid, text |-> text, date |-> date, role |-> role]

\* mutant of InsertMessage: the insert also trims the session to its newest rows
InsertMessageTrimmed(msgs, row) ==
    {m \in msgs : m.chat_id # row.chat_id} \cup {row}

\* mutant of InsertMessage: the insert replaces the session's row of the same date
InsertMessageByDate(msgs, row) ==
    {m \in msgs : ~(m.chat_id = row.chat_id /\ m.date = row.date)} \cup {row}

\* db.add(chat_message); db.commit(): the table after the INSERT
InsertMessage(msgs, row) == msgs \cup {row}

\* mutant of DeleteWhere: the DELETE misses the newest row
DeleteWhereButNewest(msgs, sid) ==
    {m \in MsgsOf(msgs, sid) : \E x \in MsgsOf(msgs, sid) : x.id > m.id}

\* DELETE FROM chat_message WHERE chat_id = session_id: the rows it removes
DeleteWhere(msgs, sid) == MsgsOf(msgs, sid)

\* mutant of SelectSession: the lookup never finds the row
SelectSessionNone(sess, chat_id) == {}

\* select(ChatSession).where(ChatSession.chat_id == chat_id)
SelectSession(sess, chat_id) == {s \in sess : s.chat_id = chat_id}

\* mutant of UniqueViolation: the column without its unique constraint
NoUniqueConstraint(sess, chat_id) == FALSE

\* chat_session.chat_id is unique=True: the INSERT of a second row is refused
UniqueViolation(sess, chat_id) == \E s \in sess : s.chat_id = chat_id

\* chat_message.chat_id is ForeignKey('chat_session.id')
SessionExists(sess, sid) == \E s \in sess : s.id = sid

\* ------------------------------------------------------------- initial state

\* the environment of the direct callers of the service: no webhook settings,
\* the Config class as the source has it
NoEnv ==
    [secure |-> None, secret |-> None, window |-> ConfigMaxHistoryMessages,
     model_name |-> ConfigDefaultGeminiModelName]

\* empty tables, no request in flight; B: the foreign-key behaviours of the
\* backends, E: the environments of the process
InitIn(B, E) ==
    /\ fk \in B
    /\ env \in E
    /\ hook = [h \in Handlers |-> NoHook]
    /\ sessions = {}
    /\ messages = {}
    /\ nextSessionId = 1
    /\ nextMessageId = 1
    /\ pc = [h \in Handlers |-> "start"]
    /\ svc = [h \in Handlers |-> 0]
    /\ call = [h \in Handlers |-> NoCall]
    /\ ret = [h \in Handlers |-> NoRet]
    /\ tx = [h \in Handlers |-> {}]
    /\ err = [h \in Handlers |-> NoErr]
    /\ issued = [c \in ChatIds |-> {}]
    /\ acked = {}
    /\ clean = [s \in SessionIds |-> FALSE]

\* the initial states of the direct callers of the service
InitOf(B) == InitIn(B, {NoEnv})

\* a request ends with an exception
Raise(h, e, op) ==
    /\ pc' = [pc EXCEPT ![h] = "error"]
    /\ err' = [err EXCEPT ![h] = [type |-> e, op |-> op]]
    /\ call' = [call EXCEPT ![h] = NoCall]
    /\ ret' = [ret EXCEPT ![h] = NoRet]

\* a service call returns r to its caller
Return(h, r) ==
    /\ pc' = [pc EXCEPT ![h] = "ready"]
    /\ call' = [call EXCEPT ![h] = NoCall]
    /\ ret' = [ret EXCEPT ![h] = r]
    /\ err' = err

\* ------------------------------------------------------------------ actions

\* ChatService(max_history_messages=m), m = None when the argument is left out
NewServiceCall(h, m) ==
    /\ pc[h] = "start"
    /\ IF ServiceInit(m) = None
       THEN /\ Raise(h, "AttributeError", "ChatService")
            /\ svc' = svc
       ELSE /\ svc' = [svc EXCEPT ![h] = ServiceInit(m)[1]]
            /\ pc' = [pc EXCEPT ![h] = "ready"]
            /\ UNCHANGED <<call, ret, err>>
    /\ UNCHANGED <<fk, sessions, messages, nextSessionId, nextMessageId, tx, issued, acked, clean>>

\* a request gets its database session and builds its ChatService
NewService(h) == \E m \in HistoryArgs : NewServiceCall(h, m)

\* mutant of GetChatHistoryCall: the read prunes the session to the window it returns
GetChatHistoryCallPruning(h, sid, limit) ==
    /\ pc[h] = "ready"
    /\ IF EffectiveLimit(limit, svc[h]) < 0
       THEN Raise(h, "ValueError", "get_chat_history") /\ messages' = messages
       ELSE \E rows \in SelectRecent(messages, sid, EffectiveLimit(limit, svc[h])) :
               /\ Return(h, [op |-> "get_chat_history", session_id |-> sid,
                             limit |-> EffectiveLimit(limit, svc[h]),
                             messages |-> rows, history |-> FormatHistory(rows),
                             racing |-> {g \in Handlers \ {h} :
                                            pc[g] = "cl_commit" /\ call[g].session_id = sid},
                             after_clear |-> clean[sid]])
               /\ messages' = {m \in messages :
                                  m.chat_id = sid => \E i \in 1..Len(rows) : rows[i] = m}
    /\ UNCHANGED <<fk, sessions, nextSessionId, nextMessageId, svc, tx, issued, acked, clean>>

\* get_chat_history(db, session_id=sid, limit=limit): the limit check, the
\* SELECT, the formatting
GetChatHistoryCall(h, sid, limit) ==
    /\ pc[h] = "ready"
    /\ IF EffectiveLimit(limit, svc[h]) < 0
       THEN Raise(h, "ValueError", "get_chat_history")
       ELSE \E rows \in SelectRecent(messages, sid, EffectiveLimit(limit, svc[h])) :
               Return(h, [op |-> "get_chat_history", session_id |-> sid,
                          limit |-> EffectiveLimit(limit, svc[h]),
                          messages |-> rows, history |-> FormatHistory(rows),
                          racing |-> {g \in Handlers \ {h} :
                                         pc[g] = "cl_commit" /\ call[g].session_id = sid},
                          after_clear |-> clean[sid]])
    /\ UNCHANGED <<fk, sessions, messages, nextSessionId, nextMessageId, svc, tx, issued, acked, clean>>

\* get_chat_history on any session, with any limit or none
GetChatHistory(h, S) == \E sid \in S, limit \in LimitArgs : GetChatHistoryCall(h, sid, limit)

\* add_message up to db.commit(): the INSERT and its commit
AddMessageCommit(h, S, T, D, R, M) ==
    /\ pc[h] = "ready"
    /\ nextMessageId <= M
    /\ \E sid \in S, text \in T, date \in D, role \in R :
        IF fk /\ ~SessionExists(sessions, sid)
        THEN \* the INSERT violates the foreign key
             /\ Raise(h, "IntegrityError", "add_message")
             /\ UNCHANGED <<messages, nextMessageId, clean>>
        ELSE /\ messages' = InsertMessage(messages, NewMessage(nextMessageId, sid, text, date, role))
             /\ nextMessageId' = nextMessageId + 1
             /\ pc' = [pc EXCEPT ![h] = "am_refresh"]
             /\ call' = [call EXCEPT ![h] =
                            [op |-> "add_message", id |-> nextMessageId,
                             session_id |-> sid, text |-> text, date |-> date, role |-> role]]
             /\ ret' = [ret EXCEPT ![h] = NoRet]
             /\ clean' = [clean EXCEPT ![sid] = FALSE]
             /\ err' = err
    /\ UNCHANGED <<fk, sessions, nextSessionId, svc, tx, issued, acked>>

\* mutant of RefreshRow: the refresh reads any row of the table
RefreshAnyRow(msgs, id) == msgs

\* db.refresh(chat_message): SELECT ... WHERE chat_message.id = id
RefreshRow(msgs, id) == {m \in msgs : m.id = id}

\* add_message: db.refresh(chat_message) re-reads the row by its id, and the call returns it
AddMessageRefresh(h) ==
    /\ pc[h] = "am_refresh"
    /\ IF RefreshRow(messages, call[h].id) # {}
       THEN /\ \E m \in RefreshRow(messages, call[h].id) :
                Return(h, [op |-> "add_message", message |-> m])
            /\ acked' = acked \cup {[id |-> call[h].id, session_id |-> call[h].session_id,
                                      text |-> call[h].text, role |-> call[h].role]}
       ELSE \* the row was deleted meanwhile: InvalidRequestError
            /\ Raise(h, "InvalidRequestError", "add_message")
            /\ acked' = acked
    /\ UNCHANGED <<fk, sessions, messages, nextSessionId, nextMessageId, svc, tx, issued, clean>>

\* clear_chat_history: the DELETE statement runs in the handler's transaction
ClearDelete(h, S) ==
    /\ pc[h] = "ready"
    /\ \E sid \in S :
        \* a row locked by another transaction's DELETE makes the statement wait
        /\ \A g \in Handlers \ {h} : tx[g] \cap DeleteWhere(messages, sid) = {}
        /\ tx' = [tx EXCEPT ![h] = DeleteWhere(messages, sid)]
        /\ call' = [call EXCEPT ![h] =
                       [op |-> "clear_chat_history", session_id |-> sid,
                        rowcount |-> Cardinality(DeleteWhere(messages, sid)),
                        before |-> MsgsOf(messages, sid),
                        mark |-> nextMessageId]]
        /\ clean' = [clean EXCEPT ![sid] = TRUE]
    /\ pc' = [pc EXCEPT ![h] = "cl_commit"]
    /\ ret' = [ret EXCEPT ![h] = NoRet]
    /\ UNCHANGED <<fk, sessions, messages, nextSessionId, nextMessageId, svc, err, issued, acked>>

\* mutant of ClearCommit: the call returns without committing its DELETE
ClearCommitSkipped(h) ==
    /\ pc[h] = "cl_commit"
    /\ messages' = messages
    /\ tx' = [tx EXCEPT ![h] = {}]
    /\ acked' = {a \in acked : a.session_id # call[h].session_id}
    /\ Return(h, [op |-> "clear_chat_history", session_id |-> call[h].session_id,
                  rowcount |-> call[h].rowcount])
    /\ UNCHANGED <<fk, sessions, nextSessionId, nextMessageId, svc, issued, clean>>

\* mutant of ClearCommit: the rows are deleted and committed one at a time
ClearCommitRowByRow(h) ==
    /\ pc[h] = "cl_commit"
    /\ IF Cardinality(tx[h]) > 1
       THEN \E m \in tx[h] :
                /\ messages' = messages \ {m}
                /\ tx' = [tx EXCEPT ![h] = @ \ {m}]
                /\ UNCHANGED <<pc, call, ret, err, acked>>
       ELSE /\ messages' = messages \ tx[h]
            /\ tx' = [tx EXCEPT ![h] = {}]
            /\ acked' = {a \in acked : a.session_id # call[h].session_id}
            /\ Return(h, [op |-> "clear_chat_history", session_id |-> call[h].session_id,
                          rowcount |-> call[h].rowcount])
    /\ UNCHANGED <<fk, sessions, nextSessionId, nextMessageId, svc, issued, clean>>

\* mutant of ClearCommit: the clear deletes the Session row with its messages
ClearCommitDropsSession(h) ==
    /\ pc[h] = "cl_commit"
    /\ messages' = messages \ tx[h]
    /\ sessions' = {s \in sessions : s.id # call[h].session_id}
    /\ tx' = [tx EXCEPT ![h] = {}]
    /\ acked' = {a \in acked : a.session_id # call[h].session_id}
    /\ Return(h, [op |-> "clear_chat_history", session_id |-> call[h].session_id,
                  rowcount |-> call[h].rowcount])
    /\ UNCHANGED <<fk, nextSessionId, nextMessageId, svc, issued, clean>>

\* clear_chat_history: db.commit(), then return result.rowcount
ClearCommit(h) ==
    /\ pc[h] = "cl_commit"
    /\ messages' = messages \ tx[h]
    /\ tx' = [tx EXCEPT ![h] = {}]
    /\ acked' = {a \in acked : a.session_id # call[h].session_id}
    /\ Return(h, [op |-> "clear_chat_history", session_id |-> call[h].session_id,
                  rowcount |-> call[h].rowcount])
    /\ UNCHANGED <<fk, sessions, nextSessionId, nextMessageId, svc, issued, clean>>

\* get_or_create_session: the SELECT; an existing session is returned at once
GetOrCreateSelect(h) ==
    /\ pc[h] = "ready"
    /\ \E c \in ChatIds :
        IF SelectSession(sessions, c) # {}
        THEN /\ \E s \in SelectSession(sessions, c) :
                 /\ Return(h, [op |-> "get_or_create_session", chat_id |-> c,
                               id |-> s.id, created |-> FALSE])
                 /\ issued' = [issued EXCEPT ![c] = @ \cup {s.id}]
        ELSE /\ pc' = [pc EXCEPT ![h] = "goc_commit"]
             /\ call' = [call EXCEPT ![h] = [op |-> "get_or_create_session", chat_id |-> c, id |-> 0]]
             /\ ret' = [ret EXCEPT ![h] = NoRet]
             /\ UNCHANGED <<err, issued>>
    /\ UNCHANGED <<fk, sessions, messages, nextSessionId, nextMessageId, svc, tx, acked, clean>>

\* get_or_create_session: db.add(session); db.commit() -- the INSERT and its commit
GetOrCreateCommit(h) ==
    /\ pc[h] = "goc_commit"
    /\ IF UniqueViolation(sessions, call[h].chat_id)
       THEN \* the IntegrityError is not caught: it ends the call
            /\ Raise(h, "IntegrityError", "get_or_create_session")
            /\ UNCHANGED <<sessions, nextSessionId>>
       ELSE /\ sessions' = sessions \cup {[id |-> nextSessionId, chat_id |-> call[h].chat_id]}
            /\ nextSessionId' = nextSessionId + 1
            /\ call' = [call EXCEPT ![h].id = nextSessionId]
            /\ pc' = [pc EXCEPT ![h] = "goc_refresh"]
            /\ UNCHANGED <<ret, err>>
    /\ UNCHANGED <<fk, messages, nextMessageId, svc, tx, issued, acked, clean>>

\* get_or_create_session: db.refresh(session), then return session
GetOrCreateRefresh(h) ==
    /\ pc[h] = "goc_refresh"
    /\ \E s \in sessions :
        /\ s.id = call[h].id
        /\ Return(h, [op |-> "get_or_create_session", chat_id |-> s.chat_id,
                      id |-> s.id, created |-> TRUE])
        /\ issued' = [issued EXCEPT ![s.chat_id] = @ \cup {s.id}]
    /\ UNCHANGED <<fk, sessions, messages, nextSessionId, nextMessageId, svc, tx, acked, clean>>

\* the operations of the service
ServiceOps == {"get_chat_history", "add_message", "clear_chat_history", "get_or_create_session"}

\* mutant of StorageFails: the service catches the failure and returns normally
StorageFailsSwallowed(h, Ops) ==
    /\ pc[h] \in {"ready", "am_refresh", "cl_commit", "goc_commit", "goc_refresh"}
    /\ \E op \in Ops :
        /\ pc[h] # "ready" => op = call[h].op
        /\ Return(h, [op |-> op, failed |-> TRUE])
    /\ UNCHANGED <<fk, sessions, messages, nextSessionId, nextMessageId, svc, tx, issued, acked, clean>>

\* the storage engine fails the statement a call of Ops is awaiting (connection
\* lost, timeout): the first statement of a call about to be made, or the
\* commit or refresh of the call in progress.  No method of the service has a
\* try/except: the exception ends the call, and what the transaction has not
\* committed stays uncommitted.
StorageFails(h, Ops) ==
    /\ pc[h] \in {"ready", "am_refresh", "cl_commit", "goc_commit", "goc_refresh"}
    /\ \E op \in Ops :
        /\ pc[h] # "ready" => op = call[h].op
        /\ Raise(h, "OperationalError", op)
    /\ UNCHANGED <<fk, sessions, messages, nextSessionId, nextMessageId, svc, tx, issued, acked, clean>>

\* mutant of Close: the database session is closed only when the handler returns normally
CloseOnSuccessOnly(h) ==
    /\ pc[h] = "ready"
    /\ pc' = [pc EXCEPT ![h] = "start"]
    /\ svc' = [svc EXCEPT ![h] = 0]
    /\ call' = [call EXCEPT ![h] = NoCall]
    /\ ret' = [ret EXCEPT ![h] = NoRet]
    /\ tx' = [tx EXCEPT ![h] = {}]
    /\ err' = [err EXCEPT ![h] = NoErr]
    /\ UNCHANGED <<fk, sessions, messages, nextSessionId, nextMessageId, issued, acked, clean>>

\* the request ends (normally or by its exception): get_db closes the database session
Close(h) ==
    /\ pc[h] \in {"ready", "error"}
    /\ pc' = [pc EXCEPT ![h] = "start"]
    /\ svc' = [svc EXCEPT ![h] = 0]
    /\ call' = [call EXCEPT ![h] = NoCall]
    /\ ret' = [ret EXCEPT ![h] = NoRet]
    /\ tx' = [tx EXCEPT ![h] = {}]
    /\ err' = [err EXCEPT ![h] = NoErr]
    /\ UNCHANGED <<fk, sessions, messages, nextSessionId, nextMessageId, issued, acked, clean>>

\* the steps of the handlers H, their calls drawing arguments from the sets
\* S (session ids), T (texts), D (dates) and R (roles), with at most M inserts
NextOf(H, S, T, D, R, M) ==
    \E h \in H :
        \/ NewService(h) /\ UNCHANGED <<env, hook>>
        \/ GetChatHistory(h, S) /\ UNCHANGED <<env, hook>>
        \/ AddMessageCommit(h, S, T, D, R, M) /\ UNCHANGED <<env, hook>>
        \/ AddMessageRefresh(h) /\ UNCHANGED <<env, hook>>
        \/ ClearDelete(h, S) /\ UNCHANGED <<env, hook>>
        \/ ClearCommit(h) /\ UNCHANGED <<env, hook>>
        \/ GetOrCreateSelect(h) /\ UNCHANGED <<env, hook>>
        \/ GetOrCreateCommit(h) /\ UNCHANGED <<env, hook>>
        \/ GetOrCreateRefresh(h) /\ UNCHANGED <<env, hook>>
        \/ Close(h) /\ UNCHANGED <<env, hook>>

\* concurrent handlers on PostgreSQL, over all sessions, one message content
Init == InitOf({TRUE})

Next == NextOf(Handlers, SessionIds, {"a"}, {1}, {"user"}, MaxRacing)

Spec == Init /\ [][Next]_vars

\* one handler at a time on either backend, over one session, every message content
InitSeq == InitOf(BOOLEAN)

NextSeq == NextOf({1}, {1}, Texts, Dates, Roles, MaxMessages)

SpecSeq == InitSeq /\ [][NextSeq]_vars

\* one handler at a time, over one session, its callers passing any role
InitRoles == InitOf({TRUE})

NextRoles == NextOf({1}, {1}, {"a"}, {1}, RoleArgs, MaxMessages)

SpecRoles == InitRoles /\ [][NextRoles]_vars

\* concurrent handlers on PostgreSQL, all on one session, messages of every date
InitSame == InitOf({TRUE})

NextSame == NextOf(Handlers, {1}, {"a"}, Dates, {"user"}, MaxRacing)

SpecSame == InitSame /\ [][NextSame]_vars

\* ------------------------------------------------------------ the webhook

\* the chat the webhook requests come from, and the timestamp of their message
HookChat == 101
HookDate == 1
\* the text of the user's message (or the caption or default prompt of a
\* photo), and the reply of the model
PromptText == "a"
ReplyText == "b"

\* the values of the header X-Telegram-Bot-Api-Secret-Token (None: no header)
HeaderTokens == {None, Some("s3cret"), Some("wrong"), Some("")}

\* the requests: a body that does not give a message with a chat
\* ("malformed": no JSON, or an update without `message`, such as an
\* edited_message update), the commands, and a message to answer (a text, or a
\* photo with its caption)
RequestKinds == {"malformed", "start", "new_chat", "text"}
Requests == [kind : RequestKinds, header : HeaderTokens]

\* MAX_HISTORY_MESSAGES as the deployment configures it (the Config class of
\* the source does not define it)
DeployedMaxHistoryMessages == Some(MaxLimit)

\* DEFAULT_GEMINI_MODEL_NAME as the deployment configures it (the Config class
\* of the source does not define it)
DeployedDefaultGeminiModelName == Some("gemini-2.0-flash-lite")

\* the environments: ENABLE_SECURE_WEBHOOK_TOKEN, TELEGRAM_WEBHOOK_SECRET (None:
\* not set), the configured history window and the configured model name
HookEnvs ==
    [secure : {None, Some("True"), Some("False")},
     secret : {None, Some("s3cret")},
     window : {ConfigMaxHistoryMessages, DeployedMaxHistoryMessages},
     model_name : {ConfigDefaultGeminiModelName, DeployedDefaultGeminiModelName}]

\* Gemini.__init__ lines 25-27: getenv("GEMINI_MODEL_NAME", Config.DEFAULT_GEMINI_MODEL_NAME)
\* evaluates the attribute whatever the environment variable holds
\* (None stands for the AttributeError of a missing attribute)
GeminiInit(e) == e.model_name

\* the outcomes of gemini.get_chat(history=...) followed by the awaited
\* gemini.send_message / gemini.send_image: the reply of the model, or an exception
ModelOutcomes == {"reply", "raise"}

\* the request gets as far as the token check of line 45
ReachesTokenCheck(e, req) == req.kind # "malformed" /\ GeminiInit(e) # None

\* mutant of IsSecureWebhookEnabled: an unset variable disables the check
IsSecureWebhookEnabledWhenSet(e) == e.secure = Some("True")

\* TelegramService.is_secure_webhook_enabled
IsSecureWebhookEnabled(e) == e.secure \in {Some("True"), None}

\* mutant of IsSecureWebhookTokenValid: the comparison without the None check
IsSecureWebhookTokenValidUnguarded(e, headers_token) == headers_token = e.secret

\* TelegramService.is_secure_webhook_token_valid
IsSecureWebhookTokenValid(e, headers_token) ==
    headers_token = e.secret /\ headers_token # None

\* the handler has returned r (or, "escaped", let an exception out)
Done(h, r, a) ==
    [stage |-> "done", kind |-> hook[h].kind, reply |-> r, auth |-> a,
     sid |-> hook[h].sid, read |-> hook[h].read, ids |-> hook[h].ids]

\* the handler moves on to stage st
Stage(h, st) == [hook[h] EXCEPT !.stage = st]

\* the replies of a handler whose last await is a call to Telegram: 'OK', or
\* the canned reply of the except block when the call raises
SendReplies == {"OK", "sorry"}

\* webhook lines 33-49, for the request req: the clients, the body, the chat
\* id, the token check, the ChatService
HookStartCall(h, req) ==
    /\ pc[h] = "start"
    /\ hook[h] = NoHook
    /\ pc' = [pc EXCEPT ![h] = "ready"]
    /\ LET fresh == [stage |-> "goc", kind |-> req.kind, reply |-> "none", auth |-> "none",
                      sid |-> 0, read |-> "no", ids |-> {}]
           end(r, a) == [fresh EXCEPT !.stage = "done", !.reply = r, !.auth = a]
       IN  IF ~ReachesTokenCheck(env, req)
           THEN \* lines 33-40 raise; the except block reads chat_id, which is not bound
                /\ hook' = [hook EXCEPT ![h] = end("escaped", "none")]
                /\ svc' = svc
           ELSE IF IsSecureWebhookEnabled(env) /\ ~IsSecureWebhookTokenValid(env, req.header)
           THEN \* send_unauthorized_message, return 'OK'
                /\ \E r \in SendReplies : hook' = [hook EXCEPT ![h] = end(r, "rejected")]
                /\ svc' = svc
           ELSE IF ServiceInitFrom(None, env.window) = None
           THEN \* ChatService() raises AttributeError
                /\ hook' = [hook EXCEPT ![h] = end("sorry", "passed")]
                /\ svc' = svc
           ELSE /\ hook' = [hook EXCEPT ![h] = [fresh EXCEPT !.auth = "passed"]]
                /\ svc' = [svc EXCEPT ![h] = ServiceInitFrom(None, env.window)[1]]
    /\ UNCHANGED <<fk, sessions, messages, nextSessionId, nextMessageId, call, ret, tx, err,
                   issued, acked, clean, env>>

\* a webhook request arrives and runs up to its first storage call
HookStart(h) == \E req \in Requests : HookStartCall(h, req)

\* the handler's hook after a step of a service call: the except block returns
\* the canned reply when the call raised, `returned` holds when the call
\* returned, and the handler is still in the call otherwise
AfterCall(h, returned) ==
    IF pc'[h] = "error"
    THEN hook' = [hook EXCEPT ![h] = Done(h, "sorry", "passed")]
    ELSE IF pc'[h] = "ready" THEN returned ELSE hook' = hook

\* line 51, chat_service.get_or_create_session(db, chat_id), by the step `step`
\* of the call, and what follows its return: the reply to /start (lines 56-58),
\* or the "Processing your request..." message (line 64; a photo is fetched
\* here too, line 69)
HookGetOrCreate(h, step) ==
    /\ hook[h].stage = "goc"
    /\ step
    /\ pc'[h] = "goc_commit" => call'[h].chat_id = HookChat
    /\ ret'[h].op = "get_or_create_session" => ret'[h].chat_id = HookChat
    /\ AfterCall(h,
          LET known == [hook[h] EXCEPT !.sid = ret'[h].id]
          IN  CASE hook[h].kind = "start" ->
                     \E r \in SendReplies :
                         hook' = [hook EXCEPT ![h] = [known EXCEPT !.stage = "done", !.reply = r]]
                [] hook[h].kind = "new_chat" ->
                     hook' = [hook EXCEPT ![h] = [known EXCEPT !.stage = "clear"]]
                [] OTHER ->
                     \/ hook' = [hook EXCEPT ![h] = [known EXCEPT !.stage = "read"]]
                     \/ hook' = [hook EXCEPT ![h] =
                                    [known EXCEPT !.stage = "done", !.reply = "sorry"]])
    /\ env' = env

\* line 60, chat_service.clear_chat_history(db, chat_session.id), and the
\* "New chat started" message of line 61.  (History: the exchanges that have
\* read their history when the clear commits are marked stale.)
HookClear(h, step) ==
    /\ hook[h].stage = "clear"
    /\ step
    /\ AfterCall(h,
          \E r \in SendReplies :
              hook' = [g \in Handlers |->
                          IF g = h THEN Done(h, r, "passed")
                          ELSE IF hook[g].stage # "idle" /\ hook[g].read = "fresh"
                               THEN [hook[g] EXCEPT !.read = "stale"]
                               ELSE hook[g]])
    /\ env' = env

\* line 85 (77 for a photo), chat_service.get_chat_history(db, chat_session.id)
HookRead(h, step) ==
    /\ hook[h].stage = "read"
    /\ step
    /\ AfterCall(h, hook' = [hook EXCEPT ![h] = [hook[h] EXCEPT !.stage = "model", !.read = "fresh"]])
    /\ env' = env

\* the inserts the exchange of handler g has still to make
Owed(g) ==
    CASE hook[g].stage = "add_user" -> IF pc[g] = "am_refresh" THEN 1 ELSE 2
      [] hook[g].stage = "add_model" -> IF pc[g] = "am_refresh" THEN 0 ELSE 1
      [] OTHER -> 0

\* the inserts the exchanges in progress have still to make
Pending == Cardinality({x \in Handlers \X {1, 2} : x[2] <= Owed(x[1])})

\* lines 85-87 (78-80), the call of the model: it returns the reply (while
\* the sequence of the Message table has room for the exchange), or it raises
HookModel(h) ==
    /\ hook[h].stage = "model"
    /\ \E o \in ModelOutcomes :
          IF o = "reply"
          THEN /\ nextMessageId + Pending + 1 <= MaxRacing
               /\ hook' = [hook EXCEPT ![h] = Stage(h, "add_user")]
          ELSE hook' = [hook EXCEPT ![h] = Done(h, "sorry", "passed")]
    /\ UNCHANGED <<fk, sessions, messages, nextSessionId, nextMessageId, pc, svc, call, ret, tx,
                   err, issued, acked, clean, env>>

\* lines 89 and 90 (82 and 83), chat_service.add_message of the stage st, by
\* the step `step` of the call; after the second one, update_message (line 93)
\* and return 'OK'
HookAdd(h, st, step) ==
    /\ hook[h].stage = st
    /\ step
    /\ LET stored == IF pc'[h] = "am_refresh" THEN {call'[h].id} ELSE {}
           now == [hook[h] EXCEPT !.ids = @ \cup stored]
       IN  IF pc'[h] = "error"
           THEN hook' = [hook EXCEPT ![h] = [now EXCEPT !.stage = "done", !.reply = "sorry"]]
           ELSE IF pc'[h] = "ready"
           THEN IF st = "add_user"
                THEN hook' = [hook EXCEPT ![h] = [now EXCEPT !.stage = "add_model"]]
                ELSE \E r \in SendReplies :
                         hook' = [hook EXCEPT ![h] = [now EXCEPT !.stage = "done", !.reply = r]]
           ELSE hook' = [hook EXCEPT ![h] = now]
    /\ env' = env

\* the handler has returned: get_db closes the database session of the request
HookClose(h) ==
    /\ hook[h].stage = "done"
    /\ Close(h)
    /\ hook' = [hook EXCEPT ![h] = NoHook]
    /\ env' = env

\* the steps of the webhook request of handler h
HookNext(h) ==
    \/ HookStart(h)
    \/ HookGetOrCreate(h, GetOrCreateSelect(h))
    \/ HookGetOrCreate(h, GetOrCreateCommit(h))
    \/ HookGetOrCreate(h, GetOrCreateRefresh(h))
    \/ HookGetOrCreate(h, StorageFails(h, {"get_or_create_session"}))
    \/ HookClear(h, ClearDelete(h, {hook[h].sid}))
    \/ HookClear(h, ClearCommit(h))
    \/ HookClear(h, StorageFails(h, {"clear_chat_history"}))
    \/ HookRead(h, GetChatHistoryCall(h, hook[h].sid, None))
    \/ HookRead(h, StorageFails(h, {"get_chat_history"}))
    \/ HookModel(h)
    \/ HookAdd(h, "add_user",
               AddMessageCommit(h, {hook[h].sid}, {PromptText}, {HookDate}, {"user"}, MaxRacing))
    \/ HookAdd(h, "add_user", AddMessageRefresh(h))
    \/ HookAdd(h, "add_user", StorageFails(h, {"add_message"}))
    \/ HookAdd(h, "add_model",
               AddMessageCommit(h, {hook[h].sid}, {ReplyText}, {HookDate}, {"model"}, MaxRacing))
    \/ HookAdd(h, "add_model", AddMessageRefresh(h))
    \/ HookAdd(h, "add_model", StorageFails(h, {"add_message"}))
    \/ HookClose(h)

\* concurrent webhook requests of one chat on PostgreSQL, in every environment
InitHook == InitIn({TRUE}, HookEnvs)

NextHook == \E h \in Handlers : HookNext(h)

SpecHook == InitHook /\ [][NextHook]_vars

\* every request that has started takes its next step: the event loop resumes
\* each handler whose await has completed, and every await on the storage or
\* on a client ends by returning or by raising
FairSpecHook == SpecHook /\ \A h \in Handlers : WF_vars(HookNext(h))

\* one direct caller on PostgreSQL whose storage statements may fail
InitFail == InitOf({TRUE})

NextFail ==
    \/ NextOf({1}, {1}, {"a"}, {1}, {"user"}, MaxRacing)
    \/ StorageFails(1, ServiceOps) /\ UNCHANGED <<env, hook>>

SpecFail == InitFail /\ [][NextFail]_vars

\* ---------------------------------------------------------------- claims

\* a step in which handler h's get_chat_history returns (the first conjuncts
\* follow from the last two)
HistoryStep(h) ==
    /\ pc[h] = "ready" /\ pc' = pc
    /\ messages' = messages
    /\ \A g \in Handlers \ {h} : ret'[g] = ret[g]
    /\ ret'[h].op = "get_chat_history"
    /\ GetChatHistory(h, SessionIds)

\* the dict get_chat_history returns for a message of role r and text t
Entry(r, t) == [role |-> r, parts |-> <<[text |-> t]>>]

\* C1: for a session holding N messages and a limit L >= 0 (L = 0 and N = 0
\* included), get_chat_history returns exactly min(N, L) entries, each the
\* entry of a distinct stored message of the session, oldest first: their
\* timestamps never decrease.
C1_HistoryLengthAndOrder ==
    [][\A h \in Handlers :
        HistoryStep(h) =>
            LET r == ret'[h]
                N == Cardinality({m \in messages : m.chat_id = r.session_id})
                n == Len(r.history)
                row(i) == r.messages[n + 1 - i]
            IN  /\ n = Min(N, r.limit)
                /\ Len(r.messages) = n
                /\ \A i \in 1..n :
                      /\ row(i) \in messages
                      /\ row(i).chat_id = r.session_id
                      /\ r.history[i] = Entry(row(i).role, row(i).text)
                /\ \A i, j \in 1..n : i < j => row(i) # row(j) /\ row(i).date <= row(j).date
      ]_vars

\* C1 witness: a session of three messages read with limit 2 returned two
\* entries of different timestamps.
C1_Witness ==
    \E h \in Handlers :
        /\ ret[h].op = "get_chat_history"
        /\ ret[h].limit = 2
        /\ Len(ret[h].history) = 2
        /\ Cardinality({m \in messages : m.chat_id = ret[h].session_id}) = 3
        /\ ret[h].messages[1].date > ret[h].messages[2].date

\* C2: when the timestamps of the session's messages are pairwise distinct,
\* whatever the order the messages were added in, get_chat_history(session, L)
\* returns the entries of the min(N, L) messages of greatest timestamp, in
\* ascending timestamp order.
C2_NewestByTimestamp ==
    [][\A h \in Handlers :
        HistoryStep(h) =>
            LET r == ret'[h]
                S == {m \in messages : m.chat_id = r.session_id}
                Top == {m \in S : Cardinality({x \in S : x.date > m.date}) < r.limit}
                At(i) == CHOOSE m \in Top : Cardinality({x \in Top : x.date < m.date}) = i - 1
            IN  (\A a, b \in S : a # b => a.date # b.date) =>
                    /\ Len(r.history) = Cardinality(Top)
                    /\ \A i \in 1..Len(r.history) :
                          r.history[i] = Entry(At(i).role, At(i).text)
      ]_vars

\* C2 witness: two messages added out of timestamp order (the later insert
\* carries the earlier timestamp) with different texts, read with limit 1: the
\* entry returned is the first insert's.
C2_Witness ==
    \E h \in Handlers : \E a, b \in messages :
        /\ ret[h].op = "get_chat_history"
        /\ ret[h].limit = 1
        /\ {m \in messages : m.chat_id = ret[h].session_id} = {a, b}
        /\ a.id < b.id /\ a.date > b.date /\ a.text # b.text
        /\ ret[h].history = <<Entry(a.role, a.text)>>

\* C3: once add_message(session, c, t, r) has returned, and as long as no clear
\* has committed on the session since, every get_chat_history on that session
\* with a limit of at least the number of stored messages contains an entry of
\* role r and text c.
C3_RoundTrip ==
    [][\A h \in Handlers :
        HistoryStep(h) =>
            LET r == ret'[h]
                N == Cardinality({m \in messages : m.chat_id = r.session_id})
            IN  r.limit >= N =>
                    \A a \in acked :
                        a.session_id = r.session_id =>
                            \E i \in 1..Len(r.history) : r.history[i] = Entry(a.role, a.text)
      ]_vars

\* C3 witness: two add_message calls of different roles and texts have
\* returned, and a later read of the session returned both entries.
C3_Witness ==
    \E h \in Handlers : \E a, b \in acked :
        /\ ret[h].op = "get_chat_history"
        /\ a.session_id = ret[h].session_id /\ b.session_id = ret[h].session_id
        /\ a.role = "user" /\ b.role = "model" /\ a.text # b.text
        /\ \E i, j \in 1..Len(ret[h].history) :
              /\ ret[h].history[i] = Entry(a.role, a.text)
              /\ ret[h].history[j] = Entry(b.role, b.text)

\* C4: get_or_create_session is idempotent: all the calls that return for one
\* external chat id return the same internal identifier; a call made once a
\* call for that id has returned finds the row, returns that identifier and
\* creates nothing; a row is created only while no call for the id has returned.
C4_GetOrCreateIdempotent ==
    /\ [](\A c \in ChatIds : Cardinality(issued[c]) <= 1)
    /\ [][\A h \in Handlers :
            /\ GetOrCreateSelect(h) =>
                  \A c \in ChatIds :
                      (/\ issued[c] # {}
                       /\ \/ ret'[h].op = "get_or_create_session" /\ ret'[h].chat_id = c
                          \/ pc'[h] = "goc_commit" /\ call'[h].chat_id = c)
                      => /\ pc'[h] = "ready"
                         /\ ret'[h].id \in issued[c]
                         /\ ~ret'[h].created
            /\ (GetOrCreateCommit(h) /\ sessions' # sessions) =>
                  /\ issued[call[h].chat_id] = {}
                  /\ Cardinality(sessions') = Cardinality(sessions) + 1
         ]_vars

\* C4 witness: one call created the session of a chat id, a later call by
\* another handler found it, and both returned the same internal identifier.
C4_Witness ==
    \E h, g \in Handlers :
        /\ ret[h].op = "get_or_create_session" /\ ret[g].op = "get_or_create_session"
        /\ ret[h].chat_id = ret[g].chat_id
        /\ ret[h].created /\ ~ret[g].created
        /\ ret[h].id = ret[g].id

\* C5: the Session table never holds two rows of one external chat id, however
\* the get_or_create_session calls of concurrent handlers interleave.
C5_OneSessionPerChat ==
    \A a, b \in sessions : a.chat_id = b.chat_id => a = b

\* C5 witness: a handler that found no session is about to insert one although
\* another handler has created the session of that chat id meanwhile.
C5_Witness ==
    \E h \in Handlers :
        /\ pc[h] = "goc_commit"
        /\ \E s \in sessions : s.chat_id = call[h].chat_id

\* C6 (as claimed): no get_or_create_session call fails on the uniqueness
\* constraint: the loser of a creation race re-fetches and returns the session.
C6_RaceLoserSucceeds ==
    \A h \in Handlers :
        ~(pc[h] = "error" /\ err[h] = [type |-> "IntegrityError", op |-> "get_or_create_session"])

C8_ClearAtomic ==
    [][\A h \in Handlers :
        /\ ClearDelete(h, SessionIds) => messages' = messages
        /\ ClearCommit(h) => messages' \cap call[h].before = {}
        /\ HistoryStep(h) =>
              LET r == ret'[h]
                  N == Cardinality({m \in messages : m.chat_id = r.session_id})
                  seen == {r.messages[i] : i \in 1..Len(r.messages)}
              IN  r.limit >= N =>
                      \A g \in r.racing :
                          \/ call[g].before \subseteq seen
                          \/ call[g].before \cap seen = {}
      ]_vars

\* C8 witness: a clear that found two messages has run its DELETE and not yet
\* committed, and a read by the other handler made meanwhile returned both.
C8_Witness ==
    \E h, g \in Handlers :
        /\ pc[g] = "cl_commit" /\ Cardinality(call[g].before) = 2
        /\ ret[h].op = "get_chat_history" /\ g \in ret[h].racing
        /\ {ret[h].messages[i] : i \in 1..Len(ret[h].messages)} = call[g].before

\* the parts of C9 that hold as claimed: the count returned is the number of
\* messages the session owns when the DELETE runs, and a clear with no append
\* since the previous clear's DELETE returns 0
ClearCounts(h) ==
    /\ ClearDelete(h, SessionIds) =>
          LET c == call'[h]
          IN  /\ c.rowcount = Cardinality({m \in messages : m.chat_id = c.session_id})
              /\ c.rowcount >= 0
              /\ clean[c.session_id] => c.rowcount = 0
    /\ ClearCommit(h) =>
          /\ ret'[h].op = "clear_chat_history"
          /\ ret'[h].rowcount = call[h].rowcount

\* C9 (as claimed): clear_chat_history returns the number of messages the
\* session owned before the call and leaves the session with zero messages; a
\* second clear with no append in between returns 0.  (The second part is
\* stated for the clears that found messages to delete.)
C9_ClearLeavesEmpty ==
    [][\A h \in Handlers :
        /\ ClearCounts(h)
        /\ (ClearCommit(h) /\ call[h].rowcount >= 1) =>
              {m \in messages' : m.chat_id = call[h].session_id} = {}
      ]_vars

\* C9 (amended): clear_chat_history returns the number of messages the session
\* owned when its DELETE ran and removes every one of them; the messages the
\* session holds when the call returns are those that add_message calls
\* committed during the call (none if there was no such call); a second clear
\* with no append in between returns 0.
C9_ClearRemovesWhatItCounted ==
    [][\A h \in Handlers :
        /\ ClearCounts(h)
        /\ ClearCommit(h) =>
              \A m \in messages' :
                  m.chat_id = call[h].session_id => m \notin call[h].before /\ m.id >= call[h].mark
      ]_vars

\* C9 witness: a clear returned the count of the two messages its session held,
\* and the session holds none.
C9_Witness ==
    \E h \in Handlers :
        /\ ret[h].op = "clear_chat_history"
        /\ ret[h].rowcount = 2
        /\ {m \in messages : m.chat_id = ret[h].session_id} = {}
        /\ nextMessageId = 3

\* C10: add_message performs one insert and nothing else: its commit adds one
\* new row, built from the arguments, to the session (one more than before) and
\* removes or changes no stored row of any session, however many the session
\* holds; its refresh changes nothing; the Session table is untouched.
C10_AddOnlyInserts ==
    [][\A h \in Handlers :
        /\ AddMessageCommit(h, SessionIds, Texts, Dates, Roles, MaxMessages) =>
              /\ sessions' = sessions
              /\ \/ pc'[h] = "error" /\ messages' = messages
                 \/ /\ pc'[h] = "am_refresh"
                    /\ LET c == call'[h]
                           new == [id |-> c.id, chat_id |-> c.session_id, text |-> c.text,
                                   date |-> c.date, role |-> c.role]
                       IN  /\ \A m \in messages : m.id # c.id
                           /\ messages' = messages \cup {new}
                           /\ Cardinality({m \in messages' : m.chat_id = c.session_id})
                                = Cardinality({m \in messages : m.chat_id = c.session_id}) + 1
        /\ AddMessageRefresh(h) =>
              /\ sessions' = sessions
              /\ messages' = messages
              /\ ret'[h].op = "add_message" => ret'[h].message \in messages
      ]_vars

\* C10 witness: an add_message has returned its message, and the earlier
\* message of another session is still stored beside it.
C10_Witness ==
    \E h \in Handlers : \E b \in messages :
        /\ ret[h].op = "add_message" /\ ret[h].message \in messages
        /\ b.chat_id # ret[h].message.chat_id /\ b.id < ret[h].message.id

\* C11: get_chat_history called with a negative limit, on whatever session,
\* ends with ValueError (limit must be non-negative), returns nothing, and
\* leaves the Session and Message tables, their sequences and the open
\* transactions as they were.
C11_NegativeLimitRejected ==
    [][\A h \in Handlers : \A sid \in SessionIds : \A limit \in LimitArgs :
        (limit # None /\ limit[1] < 0 /\ GetChatHistoryCall(h, sid, limit)) =>
            /\ pc'[h] = "error"
            /\ err'[h] = [type |-> "ValueError", op |-> "get_chat_history"]
            /\ ret'[h] = NoRet
            /\ UNCHANGED <<sessions, messages, nextSessionId, nextMessageId, tx>>
      ]_vars

\* C11 witness: a request ended with the ValueError of get_chat_history while
\* its session held messages, which are all still stored.
C11_Witness ==
    \E h \in Handlers :
        /\ pc[h] = "error"
        /\ err[h] = [type |-> "ValueError", op |-> "get_chat_history"]
        /\ Cardinality(messages) = nextMessageId - 1
        /\ Cardinality(messages) >= 2

\* C12 (as claimed): add_message on a session id that references no Session
\* stores nothing and returns nothing: every stored Message, and every Message
\* an add_message call returned, references an existing Session.
C12_MessagesReferenceSessions ==
    /\ \A m \in messages : SessionExists(sessions, m.chat_id)
    /\ \A h \in Handlers :
          ret[h].op = "add_message" => SessionExists(sessions, ret[h].message.chat_id)

\* C13 (as claimed): add_message stores nothing for a role other than "user"
\* and "model": every stored Message and every entry get_chat_history returns
\* has one of these two roles.
C13_RolesConstrained ==
    /\ \A m \in messages : m.role \in Roles
    /\ \A h \in Handlers :
          ret[h].op = "get_chat_history" =>
              \A i \in 1..Len(ret[h].history) : ret[h].history[i].role \in Roles

\* C14: however the add_message calls of concurrent handlers on one session
\* interleave, no step but the commit of a clear removes a stored message, and
\* a get_chat_history whose limit covers the session returns every message
\* committed to it and not cleared since (those whose add_message has returned
\* among them) exactly once, nothing else, oldest first by timestamp.
C14_ConcurrentAddsKept ==
    [][/\ messages \subseteq messages' \/ \E h \in Handlers : ClearCommit(h)
       /\ \A h \in Handlers :
            HistoryStep(h) =>
                LET r == ret'[h]
                    S == {m \in messages : m.chat_id = r.session_id}
                    n == Len(r.messages)
                    row(i) == r.messages[n + 1 - i]
                IN  r.limit >= Cardinality(S) =>
                        /\ n = Cardinality(S)
                        /\ Len(r.history) = n
                        /\ \A m \in S : Cardinality({i \in 1..n : r.messages[i] = m}) = 1
                        /\ \A a \in acked :
                              a.session_id = r.session_id =>
                                  Cardinality({i \in 1..n : r.messages[i].id = a.id}) = 1
                        /\ \A i \in 1..n : r.history[i] = Entry(row(i).role, row(i).text)
                        /\ \A i, j \in 1..n : i < j => row(i).date <= row(j).date
      ]_vars

\* C14 witness: a handler's add_message committed and returned while another
\* handler's add_message on the same session, committed before it with a later
\* timestamp, had not yet returned; a read made then returned both messages,
\* the one committed second first.
C14_Witness ==
    \E h, g \in Handlers : \E a \in acked :
        /\ h # g
        /\ pc[g] = "am_refresh" /\ call[g].id < a.id
        /\ ret[h].op = "get_chat_history"
        /\ Len(ret[h].messages) = 2
        /\ ret[h].messages[1].id = call[g].id /\ ret[h].messages[2].id = a.id
        /\ ret[h].messages[1].date > ret[h].messages[2].date

\* C15: sessions do not interfere: under any interleaving, the stored messages
\* of a session B change only in the commit of an add_message on B or of a
\* clear_chat_history on B (so an add or a clear on another session A leaves
\* them as they are), and get_chat_history(B) returns only stored messages
\* owned by B.
C15_SessionsIsolated ==
    [][/\ \A B \in SessionIds :
            {m \in messages' : m.chat_id = B} # {m \in messages : m.chat_id = B} =>
                \E h \in Handlers :
                    \/ /\ AddMessageCommit(h, SessionIds, Texts, Dates, Roles, MaxMessages)
                       /\ pc'[h] = "am_refresh" /\ call'[h].session_id = B
                    \/ ClearCommit(h) /\ call[h].session_id = B
       /\ \A h \in Handlers :
            HistoryStep(h) =>
                \A i \in 1..Len(ret'[h].messages) :
                    /\ ret'[h].messages[i] \in messages
                    /\ ret'[h].messages[i].chat_id = ret'[h].session_id
      ]_vars

\* C15 witness: a clear that removed a message of one session has returned,
\* and a read of the other session by the other handler returned that
\* session's message, which was stored before the clear ran and still is.
C15_Witness ==
    \E h, g \in Handlers : \E b \in messages :
        /\ h # g
        /\ ret[g].op = "clear_chat_history" /\ ret[g].rowcount = 1
        /\ ret[h].op = "get_chat_history" /\ ret[h].session_id # ret[g].session_id
        /\ ret[h].messages = <<b>>
        /\ b.id = 1 /\ nextMessageId = 3

\* the parts of C16 that hold as claimed: no step deletes a Session row or
\* changes its identifier or its chat id; the commit of an add_message leaves
\* its session active; a get_or_create_session that returns, returns a stored
\* Session row, and the identifier returned before for that chat id, if any
SessionsKept(h) ==
    /\ sessions \subseteq sessions'
    /\ \A a, b \in sessions' : a.id = b.id => a = b
    /\ (pc[h] = "ready" /\ pc'[h] = "am_refresh"
            /\ AddMessageCommit(h, SessionIds, Texts, Dates, Roles, MaxMessages)) =>
          {m \in messages' : m.chat_id = call'[h].session_id} # {}
    /\ (ret'[h].op = "get_or_create_session" /\ (GetOrCreateSelect(h) \/ GetOrCreateRefresh(h))) =>
          /\ [id |-> ret'[h].id, chat_id |-> ret'[h].chat_id] \in sessions'
          /\ issued[ret'[h].chat_id] \subseteq {ret'[h].id}

\* C16 (as claimed): a Session is new (no messages) or active; add_message
\* moves it to active and clear_chat_history, when it returns, to new; no
\* operation deletes a Session row or changes its identifier, so
\* get_or_create_session returns after a clear the identifier it returned
\* before.  (The move to new is stated for the clears of an active session.)
C16_Lifecycle ==
    [][\A h \in Handlers :
        /\ SessionsKept(h)
        /\ (pc[h] = "cl_commit" /\ call[h].rowcount >= 1 /\ ClearCommit(h)) =>
              {m \in messages' : m.chat_id = call[h].session_id} = {}
      ]_vars

\* C16 (amended): as claimed, but a clear_chat_history leaves its session with
\* exactly the messages that add_message calls committed to it during the
\* clear: the session is new when the clear returns if and only if there was
\* no such call, and active with those messages otherwise.
C16_LifecycleUnderRaces ==
    [][\A h \in Handlers :
        /\ SessionsKept(h)
        /\ (pc[h] = "cl_commit" /\ ClearCommit(h)) =>
              {m \in messages' : m.chat_id = call[h].session_id}
                = {m \in messages : m.chat_id = call[h].session_id /\ m.id >= call[h].mark}
      ]_vars

\* C16 witness: a clear that removed the messages of a session has returned,
\* the session is new again, and a get_or_create_session of the other handler
\* found the session under the identifier it was created with.
C16_Witness ==
    \E h, g \in Handlers :
        /\ h # g
        /\ ret[g].op = "clear_chat_history" /\ ret[g].rowcount >= 1
        /\ ret[h].op = "get_or_create_session" /\ ~ret[h].created
        /\ ret[h].id = ret[g].session_id
        /\ issued[ret[h].chat_id] = {ret[h].id}
        /\ {m \in messages : m.chat_id = ret[h].id} = {}

\* C17: add_message is not idempotent: each call that commits, a repetition of
\* an earlier call with the same (session, text, timestamp, role) included,
\* stores one more Message of those values under an identifier no such Message
\* has yet; and a get_chat_history whose limit covers the session shows an
\* entry as many times as the session holds Messages of that role and text.
C17_AddNotIdempotent ==
    [][\A h \in Handlers :
        /\ (pc[h] = "ready" /\ pc'[h] = "am_refresh"
                /\ AddMessageCommit(h, SessionIds, Texts, Dates, Roles, MaxMessages)) =>
              LET c == call'[h]
                  Same(M) == {m \in M : /\ m.chat_id = c.session_id /\ m.text = c.text
                                        /\ m.date = c.date /\ m.role = c.role}
              IN  /\ Cardinality(Same(messages')) = Cardinality(Same(messages)) + 1
                  /\ \A m \in Same(messages) : m.id # c.id
        /\ HistoryStep(h) =>
              LET r == ret'[h]
                  S == {m \in messages : m.chat_id = r.session_id}
              IN  r.limit >= Cardinality(S) =>
                      \A ro \in Roles : \A t \in Texts :
                          Cardinality({i \in 1..Len(r.history) : r.history[i] = Entry(ro, t)})
                            = Cardinality({m \in S : m.role = ro /\ m.text = t})
      ]_vars

\* C17 witness: the session holds two Messages that differ in their identifier
\* only, and a read of the whole session returned their entry twice.
C17_Witness ==
    \E h \in Handlers : \E a, b \in messages :
        /\ a.id # b.id
        /\ [a EXCEPT !.id = b.id] = b
        /\ ret[h].op = "get_chat_history" /\ ret[h].session_id = a.chat_id
        /\ ret[h].history = <<Entry(a.role, a.text), Entry(b.role, b.text)>>
        /\ {m \in messages : m.chat_id = a.chat_id} = {a, b}

\* C18: the Message add_message returns is the stored row of the call: its
\* text, role, timestamp and session are the arguments of the call, and its
\* identifier is populated (a positive number, the one assigned at the insert)
\* and is the identifier of no other stored Message.
C18_AddReturnsPersisted ==
    [][\A h \in Handlers :
        (pc[h] = "am_refresh" /\ ret'[h].op = "add_message" /\ AddMessageRefresh(h)) =>
            LET m == ret'[h].message
            IN  /\ m \in messages'
                /\ m.text = call[h].text /\ m.role = call[h].role
                /\ m.date = call[h].date /\ m.chat_id = call[h].session_id
                /\ m.id = call[h].id /\ m.id >= 1
                /\ \A x \in messages' : x # m => x.id # m.id
      ]_vars

\* C18 witness: the third add_message of a session returned its Message while
\* the two earlier ones, one of them equal to it in everything but the
\* identifier, are stored.
C18_Witness ==
    \E h \in Handlers : \E x \in messages :
        /\ ret[h].op = "add_message"
        /\ ret[h].message.id = 3 /\ Cardinality(messages) = 3
        /\ ret[h].message.text = "b" /\ ret[h].message.role = "model"
        /\ x.id # 3 /\ [x EXCEPT !.id = 3] = ret[h].message

\* C19: limit precedence: a get_chat_history called without a limit returns
\* min(N, D) entries, D the default window of its service; called with an
\* explicit limit L >= 0 it returns min(N, L) entries whatever D is, L = 0
\* (no entry) and L > D included.
C19_LimitPrecedence ==
    [][\A h \in Handlers : \A sid \in SessionIds : \A limit \in LimitArgs :
        (/\ pc[h] = "ready" /\ ret'[h].op = "get_chat_history" /\ ret'[h].session_id = sid
         /\ GetChatHistoryCall(h, sid, limit)) =>
            LET N == Cardinality({m \in messages : m.chat_id = sid})
                D == svc[h]
            IN  IF limit = None
                THEN Len(ret'[h].history) = Min(N, D)
                ELSE limit[1] >= 0 /\ Len(ret'[h].history) = Min(N, limit[1])
      ]_vars

\* C19 witness: a service of default window 1 read a session of three
\* messages with a limit above its default and returned two entries.
C19_Witness ==
    \E h \in Handlers :
        /\ svc[h] = 1
        /\ ret[h].op = "get_chat_history" /\ ret[h].limit = 2
        /\ Len(ret[h].history) = 2
        /\ Cardinality({m \in messages : m.chat_id = ret[h].session_id}) = 3
        /\ ret[h].messages[1].text # ret[h].messages[2].text

\* C20 (as claimed): ChatService(max_history_messages=m) is built for every
\* m >= 0 that is provided and has m as its default window; built without
\* the argument it has the configured MAX_HISTORY_MESSAGES as its default
\* window.
C20_ServiceDefaultWindow ==
    [][\A h \in Handlers : \A m \in HistoryArgs :
        (pc[h] = "start" /\ NewServiceCall(h, m)) =>
            /\ pc'[h] = "ready"
            /\ IF m = None
               THEN ConfigMaxHistoryMessages # None /\ svc'[h] = ConfigMaxHistoryMessages[1]
               ELSE svc'[h] = m[1]
      ]_vars

\* C21: no retry and no translation: when the storage fails a statement of
\* get_chat_history, add_message or clear_chat_history, the call ends there
\* with the storage's exception: it returns no value, it makes no further
\* attempt (nothing of the call is left in progress, and the request does
\* nothing more on the storage until it is closed), and the failing statement
\* changes no table.  The same holds of the errors the statements of
\* add_message raise by themselves (foreign key, refresh of a deleted row).
C21_FailuresSurface ==
    [][\A h \in Handlers :
        /\ StorageFails(h, ServiceOps \ {"get_or_create_session"}) =>
              /\ pc'[h] = "error"
              /\ err'[h].type = "OperationalError"
              /\ err'[h].op = (IF pc[h] = "ready" THEN err'[h].op ELSE call[h].op)
              /\ ret'[h] = NoRet /\ call'[h] = NoCall
              /\ messages' = messages /\ sessions' = sessions
              /\ nextMessageId' = nextMessageId
        /\ (pc'[h] = "error" /\ pc[h] # "error") =>
              /\ err'[h].type \in {"OperationalError", "IntegrityError", "InvalidRequestError",
                                   "ValueError", "AttributeError"}
              /\ ret'[h] = NoRet /\ call'[h] = NoCall
        /\ pc[h] = "error" =>
              /\ pc'[h] \in {"error", "start"}
              /\ messages' = messages /\ sessions' = sessions /\ tx'[h] \in {tx[h], {}}
      ]_vars

\* C21 witness: the commit of a clear_chat_history failed after its DELETE had
\* run: the request ended with the storage's error, and the messages are
\* still stored.
C21_Witness ==
    \E h \in Handlers :
        /\ pc[h] = "error"
        /\ err[h] = [type |-> "OperationalError", op |-> "clear_chat_history"]
        /\ tx[h] # {} /\ tx[h] \subseteq messages

\* C28: get_chat_history is read-only: whatever the session and the limit
\* (none, valid or negative), and whether it returns or raises, the call
\* leaves the Session table and the Message table exactly as they were: no
\* step that changes one of the tables is a step of get_chat_history.
C28_HistoryReadOnly ==
    [][(sessions' # sessions \/ messages' # messages) =>
          \A h \in Handlers : \A sid \in SessionIds : \A limit \in LimitArgs :
              ~(pc[h] = "ready" /\ GetChatHistoryCall(h, sid, limit))
      ]_vars

\* C28 witness: a read with limit 1 of a session of three messages returned
\* one entry, and the three messages are still stored.
C28_Witness ==
    \E h \in Handlers :
        /\ ret[h].op = "get_chat_history" /\ ret[h].limit = 1
        /\ Len(ret[h].history) = 1
        /\ Cardinality({m \in messages : m.chat_id = ret[h].session_id}) = 3
        /\ nextMessageId = 4

\* C22: every webhook request has a database session of its own: what the
\* transaction of one request has deleted and not committed is in the
\* transaction of no other request; and on every exit path of the handler
\* ('OK', the canned reply of the except block, an exception that escapes) and
\* from every point of a request, the session the request acquired is
\* eventually closed, its open transaction with it.
C22_SessionReleased ==
    /\ [](\A h, g \in Handlers : h # g => tx[h] \cap tx[g] = {})
    /\ \A h \in Handlers :
          (pc[h] # "start") ~> (pc[h] = "start" /\ tx[h] = {} /\ hook[h] = NoHook)

\* C22 witness: a handler has ended in its except block on a failed commit of
\* clear_chat_history, its transaction still holding the rows it deleted,
\* while the other handler is in the middle of its own request.
C22_Witness ==
    \E h, g \in Handlers :
        /\ h # g
        /\ hook[h].stage = "done" /\ hook[h].reply = "sorry"
        /\ pc[h] = "error" /\ tx[h] # {}
        /\ hook[g].stage \notin {"idle", "done"}

\* C23: is_secure_webhook_token_valid(header) is True exactly when the header
\* token is not None and equals the configured TELEGRAM_WEBHOOK_SECRET: it is
\* False for a wrong token, for no token, for the empty token against a
\* non-empty secret, and for every token when no secret is configured.  (The
\* handler evaluates it when the secure webhook is enabled, and goes on exactly
\* when it is True.)
C23_TokenValidation ==
    [][\A h \in Handlers, req \in Requests :
        (/\ pc[h] = "start"
         /\ ReachesTokenCheck(env, req)
         /\ IsSecureWebhookEnabled(env)
         /\ HookStartCall(h, req)) =>
            LET valid == hook'[h].auth = "passed"
            IN  /\ valid <=> (req.header # None /\ req.header = env.secret)
                /\ req.header = Some("wrong") => ~valid
                /\ req.header = None => ~valid
                /\ (req.header = Some("") /\ env.secret \notin {None, Some("")}) => ~valid
                /\ env.secret = None => ~valid
      ]_vars

\* C23 witness: with the secure webhook enabled and a secret configured, one
\* request has passed the token check and another has been turned away.
C23_Witness ==
    /\ IsSecureWebhookEnabled(env) /\ env.secret # None
    /\ \E h, g \in Handlers :
          /\ hook[h].stage # "idle" /\ hook[h].auth = "passed"
          /\ hook[g].stage # "idle" /\ hook[g].auth = "rejected"

\* C27: with the secure webhook enabled (ENABLE_SECURE_WEBHOOK_TOKEN is "True"
\* or unset), a request with an invalid token (none, or one that differs from
\* the secret) ends the handler at once: it builds no ChatService, makes no
\* storage call, creates no Session, appends no Message, clears no history and
\* does not call the model, and when it reaches the token check the handler
\* returns ('OK', or the canned reply when the notice to the sender fails);
\* all the request does afterwards is close its database session.
C27_RejectedTouchesNothing ==
    [][\A h \in Handlers :
        LET untouched ==
                /\ sessions' = sessions /\ messages' = messages
                /\ nextSessionId' = nextSessionId /\ nextMessageId' = nextMessageId
                /\ tx' = tx /\ issued' = issued /\ acked' = acked
        IN  /\ \A req \in Requests :
                  (/\ pc[h] = "start"
                   /\ env.secure \in {None, Some("True")}
                   /\ (req.header = None \/ req.header # env.secret)
                   /\ HookStartCall(h, req)) =>
                      /\ hook'[h].stage = "done"
                      /\ ReachesTokenCheck(env, req) =>
                            hook'[h].auth = "rejected" /\ hook'[h].reply \in {"OK", "sorry"}
                      /\ hook'[h].sid = 0 /\ hook'[h].read = "no" /\ hook'[h].ids = {}
                      /\ svc'[h] = 0 /\ call'[h] = NoCall /\ ret'[h] = NoRet
                      /\ untouched
            /\ (hook[h].stage # "idle" /\ hook[h].auth = "rejected" /\ hook'[h] # hook[h]) =>
                  hook'[h] = NoHook /\ pc'[h] = "start" /\ untouched
      ]_vars

\* C27 witness: a request without a token has been turned away while the chat
\* it names has a session and a stored message, both as they were.
C27_Witness ==
    \E h \in Handlers :
        /\ hook[h].stage = "done" /\ hook[h].auth = "rejected" /\ hook[h].reply = "OK"
        /\ env.secure = None
        /\ \E s \in sessions : s.chat_id = HookChat /\ \E m \in messages : m.chat_id = s.id

\* C29: the webhook handler never lets an exception escape: whatever step
\* fails (parsing the body, reading the chat id, get-or-create, the model
\* call, an append, the message edit), a handler that has ended has returned
\* 'OK' or the canned "Sorry, I am not able to generate content" reply.
C29_NoExceptionEscapes ==
    \A h \in Handlers :
        hook[h].stage = "done" => hook[h].reply \in {"OK", "sorry"}

\* C24: once a webhook exchange has completed (its handler has stored the user
\* prompt and then the model reply), a later get_chat_history whose result
\* holds both messages returns the user prompt of the exchange before its
\* model reply.
C24_PromptBeforeReply ==
    [][\A h, g \in Handlers :
        (/\ h # g
         /\ hook[g].stage = "done" /\ Cardinality(hook[g].ids) = 2
         /\ hook[h].stage = "read" /\ hook'[h].stage = "model") =>
            LET r == ret'[h]
                n == Len(r.history)
                id(i) == r.messages[n + 1 - i].id
                prompt == CHOOSE x \in hook[g].ids : \A y \in hook[g].ids : x <= y
                reply == CHOOSE x \in hook[g].ids : \A y \in hook[g].ids : x >= y
            IN  \A i, j \in 1..n : (id(i) = prompt /\ id(j) = reply) => i < j
      ]_vars

\* C25: a webhook exchange is all-or-nothing with respect to history: once the
\* handler of a chat message has finished, with 'OK' or through its error
\* path, the user turn of its exchange is stored exactly when the model turn of
\* its exchange is stored.
C25_ExchangeAllOrNothing ==
    \A h \in Handlers :
        (hook[h].stage = "done" /\ hook[h].kind = "text") =>
            LET stored == {m \in messages : m.id \in hook[h].ids}
            IN  (\E m \in stored : m.role = "user") <=> (\E m \in stored : m.role = "model")

\* C26: a new-chat command starts from an empty history even under
\* concurrency: once the handler of a NEW_CHAT command of a chat has completed
\* and all handlers have finished, the session holds no message of an exchange
\* whose handler read its history before the clear committed (stated for the
\* exchanges whose handler returned 'OK').
C26_NewChatStartsEmpty ==
    (\A h \in Handlers : hook[h].stage \in {"idle", "done"}) =>
        \A h, g \in Handlers :
            (/\ hook[h].stage = "done" /\ hook[h].kind = "new_chat"
             /\ hook[g].stage = "done" /\ hook[g].read = "stale" /\ hook[g].reply = "OK") =>
                \A m \in messages : m.chat_id = hook[h].sid => m.id \notin hook[g].ids

====
